---- MODULE Spec2Model ----
(***************************************************************************)
(* Model of hwweb05.py: a CLI that fetches PrivatBank exchange rates for   *)
(* the last `days` days, one date after the other, filters the wanted      *)
(* currencies and prints the list.                                         *)
(*                                                                         *)
(* JSON values are tagged records [t, v]: t is the Python type the JSON    *)
(* decoder produces ("dict", "list", "str", "num", "null"), v the payload  *)
(* (a function for a dict, a sequence for a list, a string otherwise).     *)
(***************************************************************************)
EXTENDS Integers, Sequences, FiniteSets, TLC

\* ---------------------------------------------------------------- bounds
\* Midnights that may pass while a request is awaited, per process run.
MaxTicks == 1
\* The API's answer and the clock vary during the first MaxVaried dates of
\* a run; later dates get the reference answer and no midnight passes.
MaxVaried == 3

\* ------------------------------------------------------------- constants
MAX_DAYS == 10
SUPPORTED_CURRENCIES == <<"USD", "EUR">>

\* ----------------------------------------------------------- JSON values
JNull == [t |-> "null", v |-> "null"]
JNum(s) == [t |-> "num", v |-> s]
JStr(s) == [t |-> "str", v |-> s]
JList(s) == [t |-> "list", v |-> s]
JDict(f) == [t |-> "dict", v |-> f]
EmptyMap == [k \in {} |-> JNull]
\* The empty record {} that fetch_exchange_rate returns on failure.
EmptyRecord == JDict(EmptyMap)

\* dict.get(key): the value, or None when the key is missing.
DictGet(f, key) == IF key \in DOMAIN f THEN f[key] ELSE JNull

\* `x in currencies` for a Python list of str: equality with some element.
InCurrencies(x, currencies) ==
    /\ x.t = "str"
    /\ \E k \in 1..Len(currencies) : currencies[k] = x.v

\* ------------------------------------------- process_exchange_rates
Returned(val) == [ok |-> TRUE, val |-> val, exc |-> "none"]
Raised(exc) == [ok |-> FALSE, val |-> EmptyMap, exc |-> exc]

\* `"exchangeRate" in raw_data`, by the type of raw_data.
ContainsKey(raw) ==
    CASE raw.t = "dict" -> Returned("exchangeRate" \in DOMAIN raw.v)
      [] raw.t = "list" -> Returned(\E k \in 1..Len(raw.v) :
                                       /\ raw.v[k].t = "str"
                                       /\ raw.v[k].v = "exchangeRate")
      [] OTHER -> Raised("TypeError")

\* StoreRate with the two rates swapped.
StoreRateSwapped(result, rate, currency) ==
    (currency.v :> [sale |-> DictGet(rate.v, "purchaseRate"),
                    purchase |-> DictGet(rate.v, "saleRate")]) @@ result

\* result[currency] = {"sale": ..., "purchase": ...}
StoreRate(result, rate, currency) ==
    (currency.v :> [sale |-> DictGet(rate.v, "saleRate"),
                    purchase |-> DictGet(rate.v, "purchaseRate")]) @@ result

\* The body of the for loop over raw_data["exchangeRate"].
RECURSIVE ScanRates(_, _, _)
ScanRates(items, currencies, result) ==
    IF Len(items) = 0 THEN Returned(result)
    ELSE LET rate == Head(items) IN
         IF rate.t # "dict" THEN Raised("AttributeError")
         ELSE LET currency == DictGet(rate.v, "currency") IN
              ScanRates(Tail(items), currencies,
                        IF InCurrencies(currency, currencies)
                        THEN StoreRate(result, rate, currency)
                        ELSE result)

\* Iterating raw_data["exchangeRate"]: a list yields its items, a dict its
\* keys (str objects, which have no .get), None and numbers do not iterate.
IterRates(er, currencies) ==
    CASE er.t = "list" -> ScanRates(er.v, currencies, EmptyMap)
      [] er.t = "dict" -> IF DOMAIN er.v = {} THEN Returned(EmptyMap)
                          ELSE Raised("AttributeError")
      [] OTHER -> Raised("TypeError")

process_exchange_rates(raw_data, currencies) ==
    LET has == ContainsKey(raw_data) IN
    IF ~has.ok THEN Raised(has.exc)
    ELSE IF ~has.val THEN Returned(EmptyMap)
    ELSE IF raw_data.t # "dict" THEN Raised("TypeError")
    ELSE IterRates(raw_data.v["exchangeRate"], currencies)

\* ------------------------------------------------------------------ dates
\* The wall clock is a proleptic Gregorian day ordinal (date.toordinal());
\* the time of day plays no part in strftime("%d.%m.%Y").
DAYS_IN_MONTH == <<31, 28, 31, 30, 31, 30, 31, 31, 30, 31, 30, 31>>
DAYS_BEFORE_MONTH == <<0, 31, 59, 90, 120, 151, 181, 212, 243, 273, 304, 334>>

\* datetime's ordinal -> (year, month, day) conversion.
Ord2Ymd(ordinal) ==
    LET n0 == ordinal - 1
        n400 == n0 \div 146097
        r400 == n0 % 146097
        n100 == r400 \div 36524
        r100 == r400 % 36524
        n4 == r100 \div 1461
        r4 == r100 % 1461
        n1 == r4 \div 365
        n == r4 % 365
        year == n400 * 400 + 1 + n100 * 100 + n4 * 4 + n1
    IN  IF n1 = 4 \/ n100 = 4 THEN [y |-> year - 1, m |-> 12, d |-> 31]
        ELSE LET leapyear == n1 = 3 /\ (n4 # 24 \/ n100 = 3)
                 Leap(mm) == IF mm > 2 /\ leapyear THEN 1 ELSE 0
                 month0 == (n + 50) \div 32
                 preceding0 == DAYS_BEFORE_MONTH[month0] + Leap(month0)
                 month == IF preceding0 > n THEN month0 - 1 ELSE month0
                 preceding == IF preceding0 > n
                              THEN preceding0 - (DAYS_IN_MONTH[month]
                                   + (IF month = 2 /\ leapyear THEN 1 ELSE 0))
                              ELSE preceding0
             IN  [y |-> year, m |-> month, d |-> n - preceding + 1]

Pad2(k) == IF k < 10 THEN "0" \o ToString(k) ELSE ToString(k)

\* strftime("%d.%m.%Y") of a date (years of four digits).
Strftime(ordinal) ==
    LET ymd == Ord2Ymd(ordinal)
    IN  Pad2(ymd.d) \o "." \o Pad2(ymd.m) \o "." \o ToString(ymd.y)

\* (datetime.now() - timedelta(days=i)).strftime("%d.%m.%Y")
DateKey(now, i) == Strftime(now - i)

\* ------------------------------------------------------------- int(argv)
\* A command-line argument is a sequence of one-character strings.
IsDigit(c) == c \in {"0", "1", "2", "3", "4", "5", "6", "7", "8", "9"}
DigitVal(c) ==
    CASE c = "0" -> 0 [] c = "1" -> 1 [] c = "2" -> 2 [] c = "3" -> 3
      [] c = "4" -> 4 [] c = "5" -> 5 [] c = "6" -> 6 [] c = "7" -> 7
      [] c = "8" -> 8 [] c = "9" -> 9

RECURSIVE Strip(_)
Strip(s) ==
    IF Len(s) = 0 THEN s
    ELSE IF Head(s) = " " THEN Strip(Tail(s))
    ELSE IF s[Len(s)] = " " THEN Strip(SubSeq(s, 1, Len(s) - 1))
    ELSE s

RECURSIVE DigitsValue(_, _)
DigitsValue(s, acc) ==
    IF Len(s) = 0 THEN acc
    ELSE DigitsValue(Tail(s), acc * 10 + DigitVal(Head(s)))

\* int(s): surrounding blanks, an optional sign, then decimal digits;
\* anything else raises ValueError.
PyInt(s) ==
    LET body == Strip(s)
        signed == Len(body) > 0 /\ Head(body) \in {"+", "-"}
        digits == IF signed THEN Tail(body) ELSE body
    IN  IF Len(digits) = 0 \/ \E k \in 1..Len(digits) : ~IsDigit(digits[k])
        THEN Raised("ValueError")
        ELSE Returned(IF signed /\ Head(body) = "-"
                      THEN 0 - DigitsValue(digits, 0)
                      ELSE DigitsValue(digits, 0))

\* ------------------------------------------------------------ environment
\* Command lines (sys.argv[1:]).  The first argument is spelled out as
\* characters because int() parses it; the currency codes are strings.
ArgvChoices ==
    << <<>>,
       << <<"2">> >>,
       << <<"3">>, "EUR" >>,
       << <<" ", "2">>, "RUB", "USD" >>,
       << <<"1", "0">> >>,
       << <<"1", "1">> >>,
       << <<"-", "1">> >>,
       << <<"a">> >>,
       << <<"1", "x">>, "USD" >>,
       << <<>> >> >>

\* Local dates at process start: 2024-05-10, 2024-03-01, 2024-01-01.
StartDays == {739016, 738946, 738886}

Rate(currency, sale, purchase) ==
    JDict([currency |-> JStr(currency), saleRate |-> sale,
           purchaseRate |-> purchase])

\* {"exchangeRate": [USD 27.5/27.0, RUB 0.4/0.3]}
ReferenceBody ==
    JDict([exchangeRate |->
             JList(<< Rate("USD", JNum("27.5"), JNum("27.0")),
                      Rate("RUB", JNum("0.4"), JNum("0.3")) >>)])

\* What one GET can come to: a 200 whose body json() decodes, a non-200
\* status, an exception of session.get, an exception of response.json().
FetchOutcomes ==
    << [kind |-> "ok", body |-> ReferenceBody],
       [kind |-> "ok", body |->
          JDict([exchangeRate |->
                   JList(<< Rate("EUR", JNum("30.1"), JNull),
                            Rate("USD", JNum("27.6"), JNum("27.1")) >>)])],
       [kind |-> "ok", body |-> JDict([date |-> JStr("10.05.2024")])],
       [kind |-> "ok", body |-> JList(<<>>)],
       [kind |-> "ok", body |-> JNull],
       [kind |-> "ok", body |-> JDict([exchangeRate |-> JNull])],
       [kind |-> "ok", body |-> JDict([exchangeRate |-> JList(<<JNum("7")>>)])],
       [kind |-> "status", body |-> JNull],
       [kind |-> "neterr", body |-> JNull],
       [kind |-> "parse", body |-> JNull] >>

\* The answers the API may give for date index idx.
OutcomeChoices(idx) ==
    IF idx < MaxVaried THEN 1..Len(FetchOutcomes) ELSE {1}

\* ------------------------------------------------------------------ state
VARIABLES
    argv,        \* sys.argv[1:]
    pc,          \* position of the main coroutine
    days,        \* main: days
    currencies,  \* CurrencyExchangeProcessor.currencies
    now,         \* wall clock, as a day ordinal
    ticks,       \* midnights passed since the start
    session,     \* CurrencyExchangeService.session: "none", "open", "closed"
    opens,       \* ClientSession objects created
    inflight,    \* GET requests sent and not yet answered
    requests,    \* GET requests sent so far: [idx, date, session]
    i,           \* get_exchange_rates: loop index
    date,        \* get_exchange_rates: date
    answers,     \* kinds of the answers received so far
    raw_data,    \* get_exchange_rates: raw_data
    processed,   \* outcome of the last process_exchange_rates call
    results,     \* get_exchange_rates: results, entries [date, rates]
    exc,         \* exception in flight, "none" if none
    output,      \* what the process printed last
    exitcode     \* process exit status, -1 while running

vars == <<argv, pc, days, currencies, now, ticks, session, opens, inflight,
          requests, i, date, answers, raw_data, processed, results, exc,
          output, exitcode>>

Blank ==
    /\ days = 0
    /\ currencies = <<>>
    /\ ticks = 0
    /\ session = "none"
    /\ opens = 0
    /\ inflight = 0
    /\ requests = <<>>
    /\ i = 0
    /\ date = ""
    /\ answers = <<>>
    /\ raw_data = EmptyRecord
    /\ processed = Returned(EmptyMap)
    /\ results = <<>>
    /\ exc = "none"
    /\ output = "none"
    /\ exitcode = -1

Init ==
    /\ \E k \in 1..Len(ArgvChoices) : argv = ArgvChoices[k]
    /\ now \in StartDays
    /\ pc = "main"
    /\ Blank

\* fetch_exchange_rate: the parsed body on a 200, else (the failure is
\* printed and) the empty record.
fetch_exchange_rate(answer) ==
    IF answer.kind = "ok" THEN answer.body ELSE EmptyRecord

\* main, up to the call of cli.run.
Main ==
    /\ pc = "main"
    /\ LET parsed == IF Len(argv) > 0 THEN PyInt(argv[1]) ELSE Returned(1)
       IN  IF parsed.ok
           THEN /\ days' = parsed.val
                /\ currencies' = IF Len(argv) > 1 THEN Tail(argv)
                                 ELSE SUPPORTED_CURRENCIES
                /\ pc' = "run"
                /\ UNCHANGED <<output, exitcode>>
           ELSE /\ output' = "usage"
                /\ exitcode' = 1
                /\ pc' = "exited"
                /\ UNCHANGED <<days, currencies>>
    /\ UNCHANGED <<argv, now, ticks, session, opens, inflight, requests, i,
                   date, answers, raw_data, processed, results, exc>>

\* The range check off by one.
ExceedsMaxOffByOne(d) == d > MAX_DAYS + 1

\* if days > MAX_DAYS
ExceedsMax(d) == d > MAX_DAYS

\* CurrencyExchangeCLI.run, up to the call of get_exchange_rates.
Run ==
    /\ pc = "run"
    /\ IF ExceedsMax(days)
       THEN /\ output' = "maxdays"
            /\ exitcode' = 0
            /\ pc' = "exited"
       ELSE /\ pc' = "enter"
            /\ UNCHANGED <<output, exitcode>>
    /\ UNCHANGED <<argv, days, currencies, now, ticks, session, opens,
                   inflight, requests, i, date, answers, raw_data, processed,
                   results, exc>>

\* get_exchange_rates: results = [] and __aenter__.
Enter ==
    /\ pc = "enter"
    /\ results' = <<>>
    /\ session' = "open"
    /\ opens' = opens + 1
    /\ i' = 0
    /\ pc' = "loop"
    /\ UNCHANGED <<argv, days, currencies, now, ticks, inflight, requests,
                   date, answers, raw_data, processed, exc, output, exitcode>>

\* The entry appended for one date, or the exception that leaves the loop.
Iterate(key, raw) ==
    LET p == process_exchange_rates(raw, currencies)
    IN  /\ raw_data' = raw
        /\ processed' = p
        /\ IF p.ok
           THEN /\ results' = Append(results, [date |-> key, rates |-> p.val])
                /\ i' = i + 1
                /\ pc' = "loop"
                /\ exc' = exc
           ELSE /\ exc' = p.exc
                /\ pc' = "aexit"
                /\ UNCHANGED <<results, i>>

\* One pass of the loop up to the await: the date is computed and the GET
\* is sent.  A session that is not open makes session.get raise inside
\* the try, so the fetch returns {} without a request.
Issue ==
    /\ pc = "loop"
    /\ i < days
    /\ date' = DateKey(now, i)
    /\ IF session = "open"
       THEN /\ requests' = Append(requests, [idx |-> i, date |-> date',
                                             session |-> session])
            /\ inflight' = inflight + 1
            /\ pc' = "await"
            /\ UNCHANGED <<answers, raw_data, processed, results, i, exc>>
       ELSE /\ answers' = Append(answers, "neterr")
            /\ Iterate(date', EmptyRecord)
            /\ UNCHANGED <<requests, inflight>>
    /\ UNCHANGED <<argv, days, currencies, now, ticks, session, opens,
                   output, exitcode>>

\* The awaited GET completes; the rest of the loop body runs.
Respond ==
    /\ pc = "await"
    /\ \E k \in OutcomeChoices(i) :
          /\ answers' = Append(answers, FetchOutcomes[k].kind)
          /\ Iterate(date, fetch_exchange_rate(FetchOutcomes[k]))
    /\ inflight' = inflight - 1
    /\ UNCHANGED <<argv, days, currencies, now, ticks, session, opens,
                   requests, date, output, exitcode>>

\* range(days) is exhausted.
LoopDone ==
    /\ pc = "loop"
    /\ i >= days
    /\ pc' = "aexit"
    /\ UNCHANGED <<argv, days, currencies, now, ticks, session, opens,
                   inflight, requests, i, date, answers, raw_data, processed,
                   results, exc, output, exitcode>>

\* A close that is skipped when the loop was left by an exception.
AExitOnSuccessOnly ==
    /\ pc = "aexit"
    /\ session' = IF exc = "none" THEN "closed" ELSE session
    /\ pc' = IF exc = "none" THEN "print" ELSE "unwind"
    /\ UNCHANGED <<argv, days, currencies, now, ticks, opens, inflight,
                   requests, i, date, answers, raw_data, processed, results,
                   exc, output, exitcode>>

\* __aexit__, on the normal and on the exceptional way out of the with.
AExit ==
    /\ pc = "aexit"
    /\ session' = "closed"
    /\ pc' = IF exc = "none" THEN "print" ELSE "unwind"
    /\ UNCHANGED <<argv, days, currencies, now, ticks, opens, inflight,
                   requests, i, date, answers, raw_data, processed, results,
                   exc, output, exitcode>>

\* run prints the list; main returns.
PrintResults ==
    /\ pc = "print"
    /\ output' = "json"
    /\ exitcode' = 0
    /\ pc' = "exited"
    /\ UNCHANGED <<argv, days, currencies, now, ticks, session, opens,
                   inflight, requests, i, date, answers, raw_data, processed,
                   results, exc>>

\* An exception reaches main: ValueError is caught there, anything else
\* ends the interpreter with a traceback and status 1.
Unwind ==
    /\ pc = "unwind"
    /\ output' = IF exc = "ValueError" THEN "usage" ELSE "traceback"
    /\ exitcode' = 1
    /\ pc' = "exited"
    /\ UNCHANGED <<argv, days, currencies, now, ticks, session, opens,
                   inflight, requests, i, date, answers, raw_data, processed,
                   results, exc>>

\* Midnight passes while a request is awaited.
Tick ==
    /\ pc = "await"
    /\ ticks < MaxTicks
    /\ i < MaxVaried
    /\ now' = now + 1
    /\ ticks' = ticks + 1
    /\ UNCHANGED <<argv, pc, days, currencies, session, opens, inflight,
                   requests, i, date, answers, raw_data, processed, results,
                   exc, output, exitcode>>

Next ==
    \/ Main
    \/ Run
    \/ Enter
    \/ Issue
    \/ Respond
    \/ LoopDone
    \/ AExit
    \/ PrintResults
    \/ Unwind
    \/ Tick

Spec == Init /\ [][Next]_vars

\* ------------------------------------------ process_exchange_rates alone
\* Bodies for the filter taken by itself: every exchangeRate list of at
\* most MaxItems of these entries, and the shapes that are not such a list.
MaxItems == 2

FilterItems ==
    << Rate("USD", JNum("27.5"), JNum("27.0")),
       Rate("USD", JNum("28.0"), JNull),
       Rate("EUR", JNum("30.1"), JNum("29.8")),
       Rate("RUB", JNum("0.4"), JNum("0.3")),
       JDict([currency |-> JStr("EUR")]),
       JDict([saleRate |-> JNum("1.0"), purchaseRate |-> JNum("0.9")]),
       JDict([currency |-> JNull, saleRate |-> JNum("1.0")]),
       JNum("7") >>

OtherBodies ==
    << EmptyRecord,
       JDict([date |-> JStr("10.05.2024")]),
       JNull,
       JNum("404"),
       JList(<<>>),
       JList(<<JStr("exchangeRate")>>),
       JDict([exchangeRate |-> JNull]),
       JDict([exchangeRate |-> EmptyRecord]),
       JDict([exchangeRate |-> JDict([USD |-> JNum("27.5")])]) >>

WantedLists ==
    << SUPPORTED_CURRENCIES, <<"EUR">>, <<>>, <<"RUB", "USD", "USD">> >>

RatesBody(picks) ==
    JDict([exchangeRate |->
             JList([k \in 1..Len(picks) |-> FilterItems[picks[k]]])])

InitFilter ==
    /\ pc = "filter"
    /\ \/ \E n \in 0..MaxItems :
            \E picks \in [1..n -> 1..Len(FilterItems)] :
               raw_data = RatesBody(picks)
       \/ \E k \in 1..Len(OtherBodies) : raw_data = OtherBodies[k]
    /\ \E k \in 1..Len(WantedLists) : currencies = WantedLists[k]
    /\ argv = <<>>
    /\ now = 739016
    /\ days = 0
    /\ ticks = 0
    /\ session = "none"
    /\ opens = 0
    /\ inflight = 0
    /\ requests = <<>>
    /\ i = 0
    /\ date = ""
    /\ answers = <<>>
    /\ processed = Returned(EmptyMap)
    /\ results = <<>>
    /\ exc = "none"
    /\ output = "none"
    /\ exitcode = -1

\* processed_data = self.processor.process_exchange_rates(raw_data)
Filter ==
    /\ pc = "filter"
    /\ processed' = process_exchange_rates(raw_data, currencies)
    /\ pc' = "filtered"
    /\ UNCHANGED <<argv, days, currencies, now, ticks, session, opens,
                   inflight, requests, i, date, answers, raw_data, results,
                   exc, output, exitcode>>

NextFilter == Filter

SpecFilter == InitFilter /\ [][NextFilter]_vars

\* ================================================================ claims
FailureKinds == {"status", "neterr", "parse"}
IsEmptyRecord(raw) == raw.t = "dict" /\ DOMAIN raw.v = {}
ArgIsInteger == Len(argv) = 0 \/ PyInt(argv[1]).ok
Answered == Len(answers) > 0
LastAnswer == answers[Len(answers)]
RequestedIdx == {requests[k].idx : k \in 1..Len(requests)}

\* C1: for days in 1..10 and any fetch outcomes, get_exchange_rates returns
\* a list of exactly `days` entries, and the entry of a failed fetch has an
\* empty rate mapping.
C1_ReturnsDaysEntries ==
    /\ (pc = "exited" /\ days \in 1..MAX_DAYS) =>
          (output = "json" /\ Len(results) = days)
    /\ (pc = "loop" /\ Answered /\ LastAnswer \in FailureKinds) =>
          /\ Len(results) = Len(answers)
          /\ DOMAIN results[Len(results)].rates = {}

\* C2: a failed fetch returns the empty record to its caller instead of
\* raising, and the run goes on to fetch every remaining date of the range.
C2_FailureNeverAborts ==
    /\ (Answered /\ LastAnswer \in FailureKinds) =>
          (IsEmptyRecord(raw_data) /\ processed.ok)
    /\ pc = "exited" =>
          \A k \in 1..Len(answers) :
             answers[k] \in FailureKinds =>
                \A j \in k..(days - 1) : j \in RequestedIdx

\* C3: the process exits with code 1 (and the usage message) exactly when
\* the first argument is not a well-formed integer, with code 0 otherwise.
C3_ExitCodeOneIffNotInteger ==
    pc = "exited" =>
       /\ exitcode \in {0, 1}
       /\ exitcode = 1 <=> ~ArgIsInteger
       /\ output = "usage" <=> ~ArgIsInteger

\* C4: when days > MAX_DAYS, run prints the bounded-range message and
\* returns normally; no session is opened and no fetch is issued.
C4_NoFetchBeyondMax ==
    (pc # "main" /\ days > 10) =>
       /\ opens = 0
       /\ session = "none"
       /\ Len(requests) = 0
       /\ inflight = 0
       /\ Len(results) = 0
       /\ pc \in {"run", "exited"}
       /\ pc = "exited" => (output = "maxdays" /\ exitcode = 0)

C4_Witness ==
    /\ pc = "exited"
    /\ days = 11
    /\ output = "maxdays"
    /\ exitcode = 0
    /\ opens = 0

\* C5: the date keys of the returned list are pairwise distinct, also when
\* the wall clock passes midnight while a fetch is awaited.
C5_DateKeysDistinct ==
    output = "json" =>
       \A a, b \in 1..Len(results) :
          a # b => results[a].date # results[b].date

\* C6: the i-th returned entry is keyed by today minus i days, today first,
\* and that key is the date sent to the API for the entry.
C6_TodayFirst ==
    output = "json" =>
       /\ \E today \in (now - ticks)..now :
             \A k \in 1..Len(results) :
                results[k].date = DateKey(today, k - 1)
       /\ Len(requests) = Len(results)
       /\ \A k \in 1..Len(results) : requests[k].date = results[k].date

\* The entries of raw's exchangeRate list (none if raw has no such list).
RawEntries(raw) ==
    IF raw.t = "dict" /\ "exchangeRate" \in DOMAIN raw.v
       /\ raw.v["exchangeRate"].t = "list"
    THEN raw.v["exchangeRate"].v
    ELSE <<>>

HasCode(entry, code) ==
    /\ entry.t = "dict"
    /\ "currency" \in DOMAIN entry.v
    /\ entry.v["currency"].t = "str"
    /\ entry.v["currency"].v = code

FieldOrNone(entry, field) ==
    IF field \in DOMAIN entry.v THEN entry.v[field] ELSE JNull

WantedSet == {currencies[k] : k \in 1..Len(currencies)}

WellShaped(raw) ==
    /\ raw.t = "dict"
    /\ "exchangeRate" \in DOMAIN raw.v
    /\ raw.v["exchangeRate"].t = "list"
    /\ \A k \in 1..Len(raw.v["exchangeRate"].v) :
          raw.v["exchangeRate"].v[k].t = "dict"

\* C8: a 200 response whose body is not of the expected shape gives an
\* entry with an empty rate mapping, and the run does not abort.
C8_MalformedIsEmpty ==
    (Answered /\ LastAnswer = "ok" /\ ~WellShaped(raw_data)) =>
       /\ processed.ok
       /\ DOMAIN processed.val = {}
       /\ exc = "none"
       /\ output # "traceback"

\* C9: the session is opened once before the first fetch, every fetch is
\* issued on the open session, and the session is closed when the run ends,
\* normally or by an exception.
C9_SessionScoped ==
    /\ opens <= 1
    /\ opens = 0 <=> session = "none"
    /\ \A k \in 1..Len(requests) : requests[k].session = "open"
    /\ inflight > 0 => session = "open"
    /\ pc \in {"loop", "await", "aexit"} => session = "open"
    /\ pc \in {"print", "unwind"} => session = "closed"
    /\ (pc = "exited" /\ opens = 1) => session = "closed"
    /\ Len(answers) = Len(requests) - inflight

C9_Witness ==
    /\ pc = "exited"
    /\ exc = "TypeError"
    /\ session = "closed"
    /\ opens = 1
    /\ Len(requests) = 2
    /\ days = 3

\* C10: at most one request is in flight, the request for index i+1 is
\* issued only after the one for index i has completed, and each index in
\* 0..days-1 is requested exactly once.
C10_SequentialExactlyOnce ==
    /\ inflight <= 1
    /\ \A k \in 1..Len(requests) : requests[k].idx = k - 1
    /\ Len(requests) <= Len(answers) + 1
    /\ (pc = "exited" /\ opens = 1) =>
          \A j \in 0..(days - 1) :
             Cardinality({k \in 1..Len(requests) : requests[k].idx = j}) = 1

====
